---- MODULE Spec2Model ----
\* Model of src/os.py: MemoryTown, a first-fit allocator over a street of
\* total_lots lots.  all_houses is the list of every MemoryHouse ever built,
\* current_day the clock that draw_town_map advances.
EXTENDS Integers, Sequences, FiniteSets, TLC

\* ---------------------------------------------------------------- bounds
MaxTotalLots == 3     \* largest total_lots handed to MemoryTown(...)
MaxLots == 4          \* largest needed_lots requested (exceeds MaxTotalLots)
MaxNegLots == 1       \* needed_lots ranges down to -MaxNegLots
MaxHouses == 3        \* cap on Len(all_houses)
MaxDay == 1           \* cap on current_day
MaxNegCapacity == 1   \* invalid total_lots range from -MaxNegCapacity to 0
MaxPairHouses == 2    \* cap on the houses of each of two towns side by side
MaxRaceHouses == 3    \* cap on the houses built by callers sharing a town

\* ------------------------------------------------------------ data model
\* move_out_day: Optional[int] = None
None == -1

\* family_names of run_town_simulation (two of them suffice here)
Families == {"Baker", "Taylor"}

\* the needed_lots values a caller may pass: build_house takes any int
LotRequests == (0 - MaxNegLots)..MaxLots

\* the total_lots values a town is constructed with
Capacities == {MaxTotalLots}

\* MemoryHouse(address, lots_occupied, owner, move_in_day, move_out_day);
\* id stands for the identity of the Python object (its creation index)
MemoryHouse(id, address, lots, family, day) ==
    [id |-> id, address |-> address, lots_occupied |-> lots, owner |-> family,
     move_in_day |-> day, move_out_day |-> None]

VARIABLES total_lots, all_houses, current_day, town_map, last,
          other_houses, calls, serialized

\* a second MemoryTown of the same total_lots (its all_houses), and the
\* build_house calls in progress when callers share one town
others == <<other_houses, calls, serialized>>

vars == <<total_lots, all_houses, current_day, town_map, last,
          other_houses, calls, serialized>>

\* ------------------------------------------------------------- helpers
\* list.sort is stable: x goes after every element whose key is <= its own
RECURSIVE InsertByAddress(_, _)
InsertByAddress(s, x) ==
    IF s = <<>> THEN <<x>>
    ELSE IF s[Len(s)].address <= x.address THEN Append(s, x)
    ELSE Append(InsertByAddress(SubSeq(s, 1, Len(s) - 1), x), s[Len(s)])

\* SortByAddress that rebuilds the list from the houses still lived in
SortByAddress_live(s) ==
    LET StillLivedIn(house) == house.move_out_day = None
    IN  SelectSeq(s, StillLivedIn)

\* self.all_houses.sort(key=lambda house: house.address)
RECURSIVE SortByAddress(_)
SortByAddress(s) ==
    IF s = <<>> THEN <<>>
    ELSE InsertByAddress(SortByAddress(SubSeq(s, 1, Len(s) - 1)), s[Len(s)])

\* Skipped without the continue: moved-out houses still block the scan
Skipped_never(house) ==
    FALSE

\* if house.move_out_day is not None: continue
Skipped(house) ==
    house.move_out_day # None

\* the for loop of build_house from position i with next_empty_lot = cursor,
\* followed by the end-of-town check; found = FALSE is the denial
RECURSIVE ScanFrom(_, _, _, _, _)
ScanFrom(houses, i, cursor, needed_lots, lots_total) ==
    IF i > Len(houses)
    THEN IF cursor + needed_lots <= lots_total
         THEN [found |-> TRUE, address |-> cursor]
         ELSE [found |-> FALSE, address |-> 0]
    ELSE IF Skipped(houses[i])
         THEN ScanFrom(houses, i + 1, cursor, needed_lots, lots_total)
         ELSE IF cursor + needed_lots <= houses[i].address
              THEN [found |-> TRUE, address |-> cursor]
              ELSE ScanFrom(houses, i + 1,
                            houses[i].address + houses[i].lots_occupied,
                            needed_lots, lots_total)

\* Oversized with the size check left out
Oversized_unchecked(needed_lots, lots_total) ==
    FALSE

\* if needed_lots > self.total_lots: ... return False
Oversized(needed_lots, lots_total) ==
    needed_lots > lots_total

\* _welcome_new_family: append a new house that moved in today
WelcomeNewFamily(houses, address, lots, family, day) ==
    Append(houses, MemoryHouse(Len(houses) + 1, address, lots, family, day))

\* the callers that may share one town
Callers == {1, 2}

\* a caller that is not inside build_house
Idle == [pc |-> "idle", lots |-> 0, family |-> "", address |-> 0]

\* --------------------------------------------------------------- actions
\* Constructed with the clock starting at day 1
Constructed_dayone(lots_total) ==
    /\ total_lots = lots_total
    /\ all_houses = <<>>
    /\ current_day = 1
    /\ town_map = <<>>
    /\ last = [op |-> "init", lots |-> 0, family |-> "", ret |-> "None"]

\* MemoryTown(total_lots): the fields __init__ sets
Constructed(lots_total) ==
    /\ total_lots = lots_total
    /\ all_houses = <<>>
    /\ current_day = 0
    /\ town_map = <<>>
    /\ last = [op |-> "init", lots |-> 0, family |-> "", ret |-> "None"]

\* one town, one caller at a time
SingleTown ==
    /\ other_houses = <<>>
    /\ calls = [c \in Callers |-> Idle]
    /\ serialized = TRUE

Init ==
    /\ \E lots_total \in Capacities : Constructed(lots_total)
    /\ SingleTown

\* build_house(needed_lots, family_name)
build_house(needed_lots, family_name) ==
    LET sorted == SortByAddress(all_houses)
        fit == ScanFrom(sorted, 1, 0, needed_lots, total_lots)
    IN  /\ IF Oversized(needed_lots, total_lots)
           THEN /\ all_houses' = all_houses
                /\ last' = [op |-> "build_house", lots |-> needed_lots,
                            family |-> family_name, ret |-> "False"]
           ELSE IF fit.found
           THEN /\ Len(all_houses) < MaxHouses
                /\ all_houses' = WelcomeNewFamily(sorted, fit.address,
                                     needed_lots, family_name, current_day)
                /\ last' = [op |-> "build_house", lots |-> needed_lots,
                            family |-> family_name, ret |-> "True"]
           ELSE /\ all_houses' = sorted
                /\ last' = [op |-> "build_house", lots |-> needed_lots,
                            family |-> family_name, ret |-> "False"]
        /\ UNCHANGED <<total_lots, current_day, town_map>>
        /\ UNCHANGED others

\* MoveOut without the owner test: everybody still in town moves out
MoveOut_anyowner(house, family_name, day) ==
    IF house.move_out_day = None
    THEN [house EXCEPT !.move_out_day = day]
    ELSE house

\* MoveOut without the move_out_day is None test: a later call stamps again
MoveOut_restamp(house, family_name, day) ==
    IF house.owner = family_name
    THEN [house EXCEPT !.move_out_day = day]
    ELSE house

\* the loop body of family_moves_out applied to one house
MoveOut(house, family_name, day) ==
    IF house.owner = family_name /\ house.move_out_day = None
    THEN [house EXCEPT !.move_out_day = day]
    ELSE house

\* MoveOutAll that stops at the first house it finds (a break in the loop)
MoveOutAll_first(houses, family_name, day) ==
    [i \in 1..Len(houses) |->
        IF \E j \in 1..(i - 1) : houses[j].owner = family_name
                                 /\ houses[j].move_out_day = None
        THEN houses[i]
        ELSE MoveOut(houses[i], family_name, day)]

\* the for loop of family_moves_out over self.all_houses
MoveOutAll(houses, family_name, day) ==
    [i \in 1..Len(houses) |-> MoveOut(houses[i], family_name, day)]

\* FoundFamily that also counts the houses the family has left
FoundFamily_owned(houses, family_name) ==
    \E i \in 1..Len(houses) : houses[i].owner = family_name

\* found_family after the loop
FoundFamily(houses, family_name) ==
    \E i \in 1..Len(houses) :
        houses[i].owner = family_name /\ houses[i].move_out_day = None

\* family_moves_out(family_name)
family_moves_out(family_name) ==
    /\ all_houses' = MoveOutAll(all_houses, family_name, current_day)
    /\ last' = [op |-> "family_moves_out", lots |-> 0,
                family |-> family_name,
                ret |-> IF FoundFamily(all_houses, family_name)
                        THEN "True" ELSE "False"]
    /\ UNCHANGED <<total_lots, current_day, town_map>>
    /\ UNCHANGED others

\* house.owner[0]
FirstLetter(family) ==
    CASE family = "Baker" -> "B"
      [] family = "Taylor" -> "T"
      [] OTHER -> "?"

\* Drawn with >= for >: a house left today is still drawn
Drawn_today(house, day) ==
    house.move_out_day = None \/ house.move_out_day >= day

\* the test of draw_town_map for a house that is drawn
Drawn(house, day) ==
    house.move_out_day = None \/ house.move_out_day > day

\* range(house.address, house.address + house.lots_occupied)
LotsOf(house) ==
    house.address..(house.address + house.lots_occupied - 1)

\* town_map[lot]: Python list index (negative indices count from the end),
\* as a position 1..lots_total; 0 when the index raises IndexError
ListIndex(lot, lots_total) ==
    IF lot >= 0 /\ lot < lots_total THEN lot + 1
    ELSE IF lot < 0 /\ lot >= 0 - lots_total THEN lot + lots_total + 1
    ELSE 0

\* the map after the marking loop: each position carries the first letter of
\* the last drawn house in list order that writes it, '_' otherwise
MarkedMap(houses, day, lots_total) ==
    [p \in 1..lots_total |->
        LET writers == {i \in 1..Len(houses) :
                           /\ Drawn(houses[i], day)
                           /\ \E lot \in LotsOf(houses[i]) :
                                  ListIndex(lot, lots_total) = p}
        IN  IF writers = {} THEN "_"
            ELSE FirstLetter(houses[CHOOSE i \in writers :
                                        \A j \in writers : j <= i].owner)]

\* some town_map[lot] = ... of the marking loop raises IndexError
MapIndexError(houses, day, lots_total) ==
    \E i \in 1..Len(houses) :
        /\ Drawn(houses[i], day)
        /\ \E lot \in LotsOf(houses[i]) : ListIndex(lot, lots_total) = 0

\* NextDay that skips a day
NextDay_two(day) ==
    day + 2

\* self.current_day += 1
NextDay(day) ==
    day + 1

\* draw_town_map(): draw the map, then self.current_day += 1
draw_town_map ==
    /\ current_day < MaxDay
    /\ IF MapIndexError(all_houses, current_day, total_lots)
       THEN /\ last' = [op |-> "draw_town_map", lots |-> 0, family |-> "",
                        ret |-> "IndexError"]
            /\ UNCHANGED <<current_day, town_map>>
       ELSE /\ town_map' = MarkedMap(all_houses, current_day, total_lots)
            /\ current_day' = NextDay(current_day)
            /\ last' = [op |-> "draw_town_map", lots |-> 0, family |-> "",
                        ret |-> "None"]
    /\ UNCHANGED <<total_lots, all_houses>>
    /\ UNCHANGED others

Next ==
    \/ \E n \in LotRequests, f \in Families : build_house(n, f)
    \/ \E f \in Families : family_moves_out(f)
    \/ draw_town_map

Spec == Init /\ [][Next]_vars

\* ------------------------------------- a town of non-positive total_lots
\* the total_lots values the configuration calls invalid
InvalidCapacities == (0 - MaxNegCapacity)..0

\* MemoryTown(total_lots) with total_lots <= 0: __init__ checks nothing
InitInvalid ==
    /\ \E lots_total \in InvalidCapacities : Constructed(lots_total)
    /\ SingleTown

SpecInvalid == InitInvalid /\ [][Next]_vars

\* ------------------------------------------ two towns of the same size
\* build_house on the first town
first_build_house(needed_lots, family_name) ==
    /\ Len(all_houses) < MaxPairHouses
    /\ build_house(needed_lots, family_name)

\* build_house on the second town (its results and its clock are not kept)
other_build_house(needed_lots, family_name) ==
    LET sorted == SortByAddress(other_houses)
        fit == ScanFrom(sorted, 1, 0, needed_lots, total_lots)
    IN  /\ Len(other_houses) < MaxPairHouses
        /\ other_houses' =
               IF Oversized(needed_lots, total_lots) THEN other_houses
               ELSE IF fit.found
               THEN WelcomeNewFamily(sorted, fit.address, needed_lots,
                                     family_name, 0)
               ELSE sorted
        /\ UNCHANGED <<total_lots, all_houses, current_day, town_map, last,
                       calls, serialized>>

\* family_moves_out on the second town
other_family_moves_out(family_name) ==
    /\ other_houses' = MoveOutAll(other_houses, family_name, 0)
    /\ UNCHANGED <<total_lots, all_houses, current_day, town_map, last,
                   calls, serialized>>

NextPair ==
    \/ \E n \in LotRequests, f \in Families : first_build_house(n, f)
    \/ \E f \in Families : family_moves_out(f)
    \/ \E n \in LotRequests, f \in Families : other_build_house(n, f)
    \/ \E f \in Families : other_family_moves_out(f)

SpecPair == Init /\ [][NextPair]_vars

\* ------------------------------------ callers sharing one town, unlocked
\* the calls that have chosen an address and not yet appended their house
Pending == {c \in Callers : calls[c].pc = "found"}

\* build_house up to the choice of the address: the size check, the sort,
\* the scan and the end-of-town check; a caller that is denied returns
race_scan(c, needed_lots, family_name) ==
    LET sorted == SortByAddress(all_houses)
        fit == ScanFrom(sorted, 1, 0, needed_lots, total_lots)
    IN  /\ calls[c].pc = "idle"
        /\ serialized => Pending = {}
        /\ IF Oversized(needed_lots, total_lots)
           THEN /\ all_houses' = all_houses
                /\ calls' = calls
                /\ last' = [op |-> "build_house", lots |-> needed_lots,
                            family |-> family_name, ret |-> "False"]
           ELSE IF fit.found
           THEN /\ Len(all_houses) + Cardinality(Pending) < MaxRaceHouses
                /\ all_houses' = sorted
                /\ calls' = [calls EXCEPT ![c] =
                                [pc |-> "found", lots |-> needed_lots,
                                 family |-> family_name,
                                 address |-> fit.address]]
                /\ last' = last
           ELSE /\ all_houses' = sorted
                /\ calls' = calls
                /\ last' = [op |-> "build_house", lots |-> needed_lots,
                            family |-> family_name, ret |-> "False"]
        /\ UNCHANGED <<total_lots, current_day, town_map, other_houses,
                       serialized>>

\* the rest of build_house: _welcome_new_family appends, return True
race_welcome(c) ==
    /\ calls[c].pc = "found"
    /\ all_houses' = WelcomeNewFamily(all_houses, calls[c].address,
                          calls[c].lots, calls[c].family, current_day)
    /\ calls' = [calls EXCEPT ![c] = Idle]
    /\ last' = [op |-> "build_house", lots |-> calls[c].lots,
                family |-> calls[c].family, ret |-> "True"]
    /\ UNCHANGED <<total_lots, current_day, town_map, other_houses,
                   serialized>>

\* the callers either hold a lock around build_house or do not
InitRace ==
    /\ \E lots_total \in Capacities : Constructed(lots_total)
    /\ other_houses = <<>>
    /\ calls = [c \in Callers |-> Idle]
    /\ serialized \in BOOLEAN

NextRace ==
    \/ \E c \in Callers, n \in LotRequests, f \in Families :
           race_scan(c, n, f)
    \/ \E c \in Callers : race_welcome(c)

SpecRace == InitRace /\ [][NextRace]_vars

\* ------------------------------------------------- vocabulary of the claims
\* a record is live while move_out_day is unset
Live(house) == house.move_out_day = None

\* the address range [start, start + length) of a record
Range(house) == house.address..(house.address + house.lots_occupied - 1)

\* the range [a, a + n)
Run(a, n) == a..(a + n - 1)

\* the record a successful build_house has just appended, and the others
NewHouse == all_houses[Len(all_houses)]
OtherHouses == SubSeq(all_houses, 1, Len(all_houses) - 1)

Built == last.op = "build_house" /\ last.ret = "True"
Denied == last.op = "build_house" /\ last.ret = "False"

\* [a, a + n) lies inside [0, capacity) and overlaps no live record of houses
FreeRun(houses, a, n) ==
    /\ 0 <= a
    /\ a + n <= total_lots
    /\ \A i \in 1..Len(houses) :
           Live(houses[i]) => Range(houses[i]) \cap Run(a, n) = {}

\* C1: any two distinct live records have disjoint address ranges
C1_LiveDisjoint ==
    \A i, j \in 1..Len(all_houses) :
        (i # j /\ Live(all_houses[i]) /\ Live(all_houses[j]))
            => Range(all_houses[i]) \cap Range(all_houses[j]) = {}

\* C2: a successful build_house places the house at the lowest address a
\* whose run [a, a + length) is inside [0, capacity) and free of live records
C2_LowestFreeRun ==
    Built =>
        /\ FreeRun(OtherHouses, NewHouse.address, last.lots)
        /\ \A a \in 0..total_lots :
               FreeRun(OtherHouses, a, last.lots) => NewHouse.address <= a

\* C3: build_house returns true exactly when some run of the requested length
\* inside [0, capacity) is covered by no live record
C3_TrueIffFreeRun ==
    /\ Built => \E a \in 0..total_lots : FreeRun(OtherHouses, a, last.lots)
    /\ Denied => ~ \E a \in 0..total_lots : FreeRun(all_houses, a, last.lots)

\* C4: every record satisfies 0 <= start and start + length <= capacity
C4_InsideTown ==
    \A i \in 1..Len(all_houses) :
        /\ 0 <= all_houses[i].address
        /\ all_houses[i].address + all_houses[i].lots_occupied <= total_lots

\* C5: build_house with needed_lots > total_lots returns false and leaves the
\* record list, every record and the clock as they were
C5_OversizedNoChange ==
    [][(last'.op = "build_house" /\ last'.lots > total_lots)
          => /\ last'.ret = "False"
             /\ all_houses' = all_houses
             /\ current_day' = current_day
             /\ total_lots' = total_lots]_vars

\* C5 witness: an oversized request was denied in a town that has houses
C5_Witness ==
    /\ last.op = "build_house"
    /\ last.lots > total_lots
    /\ last.ret = "False"
    /\ Len(all_houses) >= 2
    /\ all_houses # SortByAddress(all_houses)

\* the live records of family in houses
LiveOf(houses, family) ==
    {i \in 1..Len(houses) : houses[i].owner = family /\ Live(houses[i])}

\* C6: family_moves_out(owner) stamps every live record of owner with the
\* current day, returns true exactly when there was one, and leaves owner
\* without a live record
C6_ReleaseAll ==
    [][last'.op = "family_moves_out"
          => /\ Len(all_houses') = Len(all_houses)
             /\ \A i \in LiveOf(all_houses, last'.family) :
                    all_houses'[i].move_out_day = current_day
             /\ (last'.ret = "True") <=> (LiveOf(all_houses, last'.family) # {})
             /\ LiveOf(all_houses', last'.family) = {}]_vars

\* C6 witness: one call moved two houses of a family out while the other
\* family still lives in town
C6_Witness ==
    /\ last.op = "family_moves_out"
    /\ last.ret = "True"
    /\ \E i, j \in 1..Len(all_houses) :
           /\ i # j
           /\ all_houses[i].owner = last.family
           /\ all_houses[j].owner = last.family
           /\ all_houses[i].move_out_day = current_day
           /\ all_houses[j].move_out_day = current_day
           /\ all_houses[i].move_in_day < current_day
           /\ all_houses[j].move_in_day = current_day
    /\ \E k \in 1..Len(all_houses) :
           all_houses[k].owner # last.family /\ Live(all_houses[k])

\* C7: at every query time t, two distinct records that are both unreleased
\* or released after t have disjoint address ranges
C7_DisjointAtEveryTime ==
    \A t \in 0..current_day :
        \A i, j \in 1..Len(all_houses) :
            (/\ i # j
             /\ (Live(all_houses[i]) \/ all_houses[i].move_out_day > t)
             /\ (Live(all_houses[j]) \/ all_houses[j].move_out_day > t))
                => Range(all_houses[i]) \cap Range(all_houses[j]) = {}

\* the outcome of the scan over the live records of houses alone
LiveOnly(houses) == SelectSeq(houses, Live)

ScanLive(houses, needed_lots) ==
    ScanFrom(SortByAddress(LiveOnly(houses)), 1, 0, needed_lots, total_lots)

\* C8 as stated: a new house that touches a moved-out house's range stays
\* within that range
C8_NoMerge ==
    Built =>
        \A i \in 1..Len(OtherHouses) :
            (/\ ~ Live(OtherHouses[i])
             /\ Range(OtherHouses[i]) \cap Range(NewHouse) # {})
                => Range(NewHouse) \subseteq Range(OtherHouses[i])

\* C8 amended: moved-out houses leave no trace in the scan; a request that
\* is not oversized is placed, or denied, as the live houses alone decide
C8_ReleasedIgnored ==
    [][(last'.op = "build_house" /\ last'.lots <= total_lots)
          => /\ (last'.ret = "True")
                    <=> ScanLive(all_houses, last'.lots).found
             /\ last'.ret = "True"
                    => all_houses'[Len(all_houses')].address
                           = ScanLive(all_houses, last'.lots).address]_vars

\* C8 witness: a new house covers a moved-out house's range and lots beyond it
C8_Witness ==
    /\ Built
    /\ \E i \in 1..Len(OtherHouses) :
           /\ ~ Live(OtherHouses[i])
           /\ OtherHouses[i].lots_occupied >= 1
           /\ Range(OtherHouses[i]) \subseteq Range(NewHouse)
           /\ Range(OtherHouses[i]) # Range(NewHouse)

\* the record of houses whose identity is id
ById(houses, id) ==
    houses[CHOOSE i \in 1..Len(houses) : houses[i].id = id]

\* C9: a set move_out_day never changes, no record leaves the list, and the
\* list grows by one record exactly on a successful build_house
C9_HistoryKept ==
    [][/\ \A i \in 1..Len(all_houses) :
              /\ \E j \in 1..Len(all_houses') :
                     all_houses'[j].id = all_houses[i].id
              /\ ~ Live(all_houses[i])
                     => ById(all_houses', all_houses[i].id).move_out_day
                            = all_houses[i].move_out_day
       /\ Len(all_houses') =
              IF last'.op = "build_house" /\ last'.ret = "True"
              THEN Len(all_houses) + 1
              ELSE Len(all_houses)]_vars

\* C9 witness: a family whose house was moved out on an earlier day moves out
\* again, from another house
C9_Witness ==
    /\ last.op = "family_moves_out"
    /\ last.ret = "True"
    /\ \E i, j \in 1..Len(all_houses) :
           /\ all_houses[i].owner = last.family
           /\ all_houses[j].owner = last.family
           /\ all_houses[i].move_out_day # None
           /\ all_houses[i].move_out_day < current_day
           /\ all_houses[j].move_out_day = current_day

\* C10: every record has length >= 1
C10_LengthPositive ==
    \A i \in 1..Len(all_houses) : all_houses[i].lots_occupied >= 1

\* the record built last (the highest creation index)
Newest(houses) == ById(houses, Len(houses))

\* the map positions a record's lots are drawn at
PositionsOf(house) ==
    {ListIndex(lot, total_lots) : lot \in LotsOf(house)} \ {0}

\* C11: a record released at day t is in no map drawn on day t or later (the
\* map is the map of the live records); in particular the map drawn after
\* build_house then family_moves_out of the same family shows no record
\* where the house was built
C11_ReleasedNotDrawn ==
    [][(last'.op = "draw_town_map" /\ last'.ret = "None")
          => /\ town_map' = MarkedMap(LiveOnly(all_houses), current_day,
                                      total_lots)
             /\ (/\ last.op = "family_moves_out" /\ last.ret = "True"
                 /\ Len(all_houses) > 0
                 /\ Newest(all_houses).owner = last.family)
                    => \A p \in PositionsOf(Newest(all_houses)) :
                           town_map'[p] = "_"]_vars

\* C12: right after family_moves_out(family), a second call for the same
\* family returns false and changes no record
C12_SecondReleaseFalse ==
    last.op = "family_moves_out"
        => /\ ~ FoundFamily(all_houses, last.family)
           /\ MoveOutAll(all_houses, last.family, current_day) = all_houses

\* C12 witness: the first call has just moved the family's newest house out,
\* on a later day than it was built, and another house is still lived in
C12_Witness ==
    /\ last.op = "family_moves_out"
    /\ last.ret = "True"
    /\ Newest(all_houses).owner = last.family
    /\ Newest(all_houses).move_in_day < current_day
    /\ Newest(all_houses).move_out_day = current_day
    /\ \E i \in 1..Len(all_houses) : Live(all_houses[i])

\* the result of build_house(needed_lots, ...) on houses: placed where, or denied
Outcome(houses, needed_lots) ==
    IF Oversized(needed_lots, total_lots)
    THEN [found |-> FALSE, address |-> 0]
    ELSE ScanFrom(SortByAddress(houses), 1, 0, needed_lots, total_lots)

\* the records of houses, whatever their order
Records(houses) == {houses[i] : i \in 1..Len(houses)}

\* C13: a denied build_house and a family_moves_out that finds no house
\* create no record, change no field of a record, and leave the result of
\* every following build_house and family_moves_out as it was
C13_DenialsLeaveNoTrace ==
    [][(/\ last'.op \in {"build_house", "family_moves_out"}
        /\ last'.ret = "False")
          => /\ Len(all_houses') = Len(all_houses)
             /\ Records(all_houses') = Records(all_houses)
             /\ \A n \in LotRequests :
                    Outcome(all_houses', n) = Outcome(all_houses, n)
             /\ \A f \in Families :
                    /\ FoundFamily(all_houses', f) = FoundFamily(all_houses, f)
                    /\ Records(MoveOutAll(all_houses', f, current_day'))
                           = Records(MoveOutAll(all_houses, f, current_day))]_vars

\* the lots of the town no live record covers
FreeLots ==
    {lot \in 0..(total_lots - 1) :
        \A i \in 1..Len(all_houses) :
            Live(all_houses[i]) => lot \notin Range(all_houses[i])}

\* C13 witness: a request is denied for want of a gap although as many lots
\* are free in all, in a town that keeps a moved-out house
C13_Witness ==
    /\ Denied
    /\ last.lots >= 1
    /\ last.lots <= total_lots
    /\ Cardinality(FreeLots) >= last.lots
    /\ \E i \in 1..Len(all_houses) : ~ Live(all_houses[i])

\* C14 as stated: draw_town_map changes neither the record list, nor a
\* record, nor the current day
C14_PureRead ==
    [][last'.op = "draw_town_map"
          => /\ all_houses' = all_houses
             /\ current_day' = current_day]_vars

\* C14 amended: draw_town_map changes neither the record list nor a record
\* nor total_lots; when the map is drawn it moves the current day on by one
C14_ReadThenAdvance ==
    [][last'.op = "draw_town_map"
          => /\ all_houses' = all_houses
             /\ total_lots' = total_lots
             /\ current_day' = IF last'.ret = "None"
                               THEN current_day + 1 ELSE current_day]_vars

\* C14 witness: a map was drawn of a town with a lived-in and a left house
C14_Witness ==
    /\ last.op = "draw_town_map"
    /\ last.ret = "None"
    /\ current_day >= 1
    /\ \E i, j \in 1..Len(all_houses) :
           /\ Live(all_houses[i]) /\ all_houses[i].lots_occupied >= 1
           /\ ~ Live(all_houses[j]) /\ all_houses[j].lots_occupied >= 1
    /\ \E p \in 1..total_lots : town_map[p] # "_"

\* C18: family_moves_out(owner) leaves the houses of other families, the
\* houses already left, the address, length, owner and move-in day of every
\* house, total_lots and the current day as they were
C18_ReleaseFrame ==
    [][last'.op = "family_moves_out"
          => /\ Len(all_houses') = Len(all_houses)
             /\ \A i \in 1..Len(all_houses) :
                    /\ all_houses'[i].id = all_houses[i].id
                    /\ all_houses'[i].address = all_houses[i].address
                    /\ all_houses'[i].lots_occupied
                           = all_houses[i].lots_occupied
                    /\ all_houses'[i].owner = all_houses[i].owner
                    /\ all_houses'[i].move_in_day = all_houses[i].move_in_day
                    /\ (all_houses[i].owner # last'.family
                        \/ ~ Live(all_houses[i]))
                           => all_houses'[i] = all_houses[i]
             /\ total_lots' = total_lots
             /\ current_day' = current_day]_vars

\* C18 witness: a family moves out of one house while it has left another on
\* an earlier day and the other family lives in town
C18_Witness ==
    /\ last.op = "family_moves_out"
    /\ last.ret = "True"
    /\ \E i, j, k \in 1..Len(all_houses) :
           /\ all_houses[i].owner = last.family
           /\ all_houses[i].move_out_day = current_day
           /\ all_houses[j].owner = last.family
           /\ ~ Live(all_houses[j])
           /\ all_houses[j].move_out_day < current_day
           /\ all_houses[k].owner # last.family
           /\ Live(all_houses[k])

\* C19: the current day starts at 0, never decreases, changes only in
\* draw_town_map and then by one; build_house and family_moves_out leave
\* it alone, and total_lots never changes
C19_ClockAndCapacity ==
    /\ current_day = 0
    /\ [][/\ current_day' >= current_day
          /\ current_day' # current_day
                 => /\ last'.op = "draw_town_map"
                    /\ current_day' = current_day + 1
          /\ last'.op \in {"build_house", "family_moves_out"}
                 => current_day' = current_day
          /\ total_lots' = total_lots]_vars

\* C19 witness: a house is built and a family moves out after the day changed
C19_Witness ==
    /\ current_day >= 1
    /\ last.op = "family_moves_out"
    /\ \E i \in 1..Len(all_houses) : all_houses[i].move_in_day = current_day
    /\ \E i \in 1..Len(all_houses) : all_houses[i].move_in_day < current_day

\* C20: every record moved in on the day its build_house ran and no later
\* than today, every released record moved out between its move-in day and
\* today, and draw_town_map draws exactly the records build_house scans
C20_DaysInOrder ==
    /\ \A i \in 1..Len(all_houses) :
           /\ all_houses[i].move_in_day <= current_day
           /\ ~ Live(all_houses[i])
                  => /\ all_houses[i].move_in_day <= all_houses[i].move_out_day
                     /\ all_houses[i].move_out_day <= current_day
           /\ Drawn(all_houses[i], current_day) <=> ~ Skipped(all_houses[i])
    /\ Built => NewHouse.move_in_day = current_day

\* C20 witness: one house left on the day it was built, one left on a later
\* day which is today, and one built today and lived in
C20_Witness ==
    \E i, j, k \in 1..Len(all_houses) :
        /\ all_houses[i].move_out_day = all_houses[i].move_in_day
        /\ all_houses[i].move_out_day < current_day
        /\ all_houses[j].move_in_day < all_houses[j].move_out_day
        /\ all_houses[j].move_out_day = current_day
        /\ Live(all_houses[k])
        /\ all_houses[k].move_in_day = current_day

\* how many live records of houses have the range [a, a + n)
LiveCount(houses, a, n) ==
    Cardinality({i \in 1..Len(houses) :
                    /\ Live(houses[i])
                    /\ houses[i].address = a
                    /\ houses[i].lots_occupied = n})

\* two record lists with the same live ranges
SameLiveRanges(h1, h2) ==
    \A r \in Records(h1) \cup Records(h2) :
        LiveCount(h1, r.address, r.lots_occupied)
            = LiveCount(h2, r.address, r.lots_occupied)

\* C15: two towns of the same total_lots with the same live ranges give the
\* same result, placed where or denied, to build_house of the same length
C15_OutcomeOfLiveRanges ==
    SameLiveRanges(all_houses, other_houses)
        => \A n \in LotRequests :
               Outcome(all_houses, n) = Outcome(other_houses, n)

\* C16: no build_house, family_moves_out or draw_town_map runs on a town
\* constructed with a non-positive total_lots
C16_InvalidTownUnused ==
    total_lots <= 0 => last.op = "init"

\* C17: callers whose build_house calls run one whole call at a time never
\* leave two overlapping live records (callers that interleave the scan and
\* the insertion can: C17_RaceOverlap)
C17_SerializedNoOverlap ==
    serialized
        => \A i, j \in 1..Len(all_houses) :
               (i # j /\ Live(all_houses[i]) /\ Live(all_houses[j]))
                   => Range(all_houses[i]) \cap Range(all_houses[j]) = {}

\* two houses of length >= 1 overlap after unlocked callers interleaved
C17_RaceOverlap ==
    /\ ~ serialized
    /\ \A i \in 1..Len(all_houses) : all_houses[i].lots_occupied >= 1
    /\ \E i, j \in 1..Len(all_houses) :
           /\ i # j
           /\ Range(all_houses[i]) \cap Range(all_houses[j]) # {}

====
